---- MODULE Spec2Model ----
(***************************************************************************)
(* Model of the Observer library (src/src/observer.h): one Source object   *)
(* built over RawContainer or SmartContainer, a fixed population of        *)
(* listener objects, and the calls attach / detach / notify made on the    *)
(* Source, plus the destruction of listener objects by the application.    *)
(*                                                                         *)
(* Two lines of observer.h are ill-formed as written and are modelled by   *)
(* their evident reading:                                                  *)
(*   - RawContainer::detach hands the handle itself to std::remove_if      *)
(*     where a predicate is expected; the predicate is taken to be         *)
(*     "element == listener";                                              *)
(*   - SmartContainer::detach tests ptr.empty() on a shared_ptr; it is     *)
(*     taken to be "ptr is null".                                          *)
(* Both then call the ONE-iterator overload of vector::erase, which is     *)
(* modelled as the standard library defines it.                            *)
(***************************************************************************)
EXTENDS Integers, Sequences, FiniteSets, TLC

\* Bound on the length of each container's vector and on the recorded
\* sequence of attach calls (specification Spec).
MaxLen == 3

\* The same bound for the attachment-order scenario (specification SpecOrder).
MaxOrderLen == 5

\* T_Listeners pack of the Source: RawSource<ListenerB, ListenerC>
\* (snippets.cpp:64).
T_Listeners == <<"ListenerB", "ListenerC">>

\* The concrete listener objects.
Listeners == {"lAB", "lBC", "lB", "lA"}

\* The objects the calls of Spec and of SpecOrder are made with.
Population == {"lAB", "lBC", "lA"}
OrderPopulation == {"lAB", "lBC", "lB"}

\* Args pack of each object's Listener<Args...> base, in declaration order
\* (lAB is snippets.cpp's ConcreteListener).
ListenerArgs(l) ==
  CASE l = "lAB" -> <<"ListenerA", "ListenerB">>
    [] l = "lBC" -> <<"ListenerB", "ListenerC">>
    [] l = "lB" -> <<"ListenerB">>
    [] l = "lA" -> <<"ListenerA">>

Null == "null"
None == "none"
\* An empty (moved-from) weak_ptr.
EmptyWeak == "empty"

Range(s) == {s[i] : i \in 1..Len(s)}
SourceCaps == Range(T_Listeners)

VARIABLES
  kind,         \* T_Container of the Source: "Raw" or "Smart"
  m_listeners,  \* per declared capability, the vector of stored handles
  alive,        \* listener objects not yet destroyed
  fault,        \* "none", "assert" (failed assert) or "ub" (crash after UB)
  op,           \* the last call made, its arguments and outcome
  pre,          \* m_listeners as it was before the last call
  delivered,    \* the listeners invoked by the last call, in order
  hist,         \* the attach calls (non-null handle) on record, in call order
  phase,        \* 0: hist holds every attach call made so far, no detach made;
                \* 1: the same, detach calls made since; 2: no record kept
  rt            \* progress of an attach ; detach ; notify sequence on one listener

vars == <<kind, m_listeners, alive, fault, op, pre, delivered, hist, phase, rt>>

----------------------------------------------------------------------------
\* A contains that compares T with the first type of the pack only.
contains_first(T, Args) == Len(Args) > 0 /\ Args[1] = T

\* detail::contains<T, Args...>::value
contains(T, Args) == \E i \in 1..Len(Args) : Args[i] = T

\* Capabilities declared by both the Source (Cs) and the listener's type (Cl).
Shared(l) == SourceCaps \cap Range(ListenerArgs(l))

\* A lock() that never notices that the object is gone.
Lock_unchecked(e) == e

\* weak_ptr::lock(): the object, or null when expired or empty.
Lock(e) == IF e \in alive THEN e ELSE Null

Count(s, l) == Cardinality({i \in 1..Len(s) : s[i] = l})
Positions(s, l) == {i \in 1..Len(s) : s[i] = l}

----------------------------------------------------------------------------
\* A RawContainer::attach without its assert.
RawAttach_noassert(list, h) == [list |-> Append(list, h), fault |-> "none"]

\* RawContainer::attach: assert(listener); m_listeners.push_back(listener).
RawAttach(list, h) ==
  IF h = Null THEN [list |-> list, fault |-> "assert"]
  ELSE [list |-> Append(list, h), fault |-> "none"]

\* A SmartContainer::attach that stores a handle only once.
SmartAttach_dedup(list, h) ==
  IF h = Null THEN [list |-> list, fault |-> "assert"]
  ELSE IF \E i \in 1..Len(list) : list[i] = h THEN [list |-> list, fault |-> "none"]
  ELSE [list |-> Append(list, h), fault |-> "none"]

\* SmartContainer::attach: assert(listener); m_listeners.push_back(listener).
SmartAttach(list, h) ==
  IF h = Null THEN [list |-> list, fault |-> "assert"]
  ELSE [list |-> Append(list, h), fault |-> "none"]

\* cond<Contains, T_Container>::attach: forwards to the container when
\* Contains is true, does nothing (the empty specialization) when false.
condAttach(Contains, list, h) ==
  IF Contains
    THEN IF kind = "Raw" THEN RawAttach(list, h) ELSE SmartAttach(list, h)
    ELSE [list |-> list, fault |-> "none"]

\* A Source::attach that forwards to every container of the Source, whatever
\* the listener's Args pack.
SourceAttach_all(Args, i, m, h) ==
  IF h = Null THEN [m |-> m, fault |-> "assert"]
  ELSE [m |-> [c \in DOMAIN m |-> Append(m[c], h)], fault |-> "none"]

\* A Source::attach that stops at the first capability it forwards.
RECURSIVE SourceAttach_first(_, _, _, _)
SourceAttach_first(Args, i, m, h) ==
  IF i > Len(Args) THEN [m |-> m, fault |-> "none"]
  ELSE LET c == Args[i]
           has == contains(c, T_Listeners)
           r == condAttach(has, IF has THEN m[c] ELSE <<>>, h)
       IN IF r.fault # "none" THEN [m |-> m, fault |-> r.fault]
          ELSE IF has THEN [m |-> [m EXCEPT ![c] = r.list], fault |-> "none"]
          ELSE SourceAttach_first(Args, i + 1, m, h)

\* Source::attach: the fold over the listener's Args pack, left to right; a
\* failed assert aborts the program and the rest of the fold never runs.
RECURSIVE SourceAttach(_, _, _, _)
SourceAttach(Args, i, m, h) ==
  IF i > Len(Args) THEN [m |-> m, fault |-> "none"]
  ELSE LET c == Args[i]
           has == contains(c, T_Listeners)
           r == condAttach(has, IF has THEN m[c] ELSE <<>>, h)
       IN IF r.fault # "none" THEN [m |-> m, fault |-> r.fault]
          ELSE SourceAttach(Args, i + 1,
                            IF has THEN [m EXCEPT ![c] = r.list] ELSE m, h)

----------------------------------------------------------------------------
\* The predicate std::remove_if applies to each element in RawContainer::detach:
\* the element equals the handle.
RawPred(e, listener) == e = listener

\* The lambda of SmartContainer::detach: ptr = weakListener.lock();
\* ptr == listener || ptr is null.
SmartPred(e, listener) == Lock(e) = listener \/ Lock(e) = Null

Pred(e, listener) ==
  IF kind = "Raw" THEN RawPred(e, listener) ELSE SmartPred(e, listener)

\* What move-assignment leaves behind in the source element: a raw pointer
\* keeps its value, a weak_ptr becomes empty.
MovedFrom(e) == IF kind = "Raw" THEN e ELSE EmptyWeak

\* std::find_if: index of the first element satisfying the predicate, or
\* Len(a) + 1 (the end iterator).
RECURSIVE FindIf(_, _, _)
FindIf(a, first, listener) ==
  IF first > Len(a) THEN first
  ELSE IF Pred(a[first], listener) THEN first
  ELSE FindIf(a, first + 1, listener)

\* The loop of std::remove_if after the first match: every later element that
\* does not satisfy the predicate is move-assigned to *result.
RECURSIVE RemoveLoop(_, _, _, _)
RemoveLoop(a, result, first, listener) ==
  IF first > Len(a) THEN [a |-> a, result |-> result]
  ELSE IF ~Pred(a[first], listener)
    THEN RemoveLoop([a EXCEPT ![result] = a[first], ![first] = MovedFrom(a[first])],
                    result + 1, first + 1, listener)
    ELSE RemoveLoop(a, result, first + 1, listener)

\* std::remove_if(begin, end, pred): the rearranged vector and the returned
\* iterator (as an index; Len(a) + 1 is end()).
RemoveIf(a, listener) ==
  LET first == FindIf(a, 1, listener)
  IN IF first > Len(a) THEN [a |-> a, result |-> first]
     ELSE RemoveLoop(a, first, first + 1, listener)

\* The two-iterator erase(pos, end()): everything from pos on is removed.
Erase_range(a, pos) == {[list |-> SubSeq(a, 1, pos - 1), fault |-> "none"]}

\* vector::erase(pos) with one iterator: removes the single element at pos.
\* erase(end()) is undefined behaviour; the outcomes kept are a crash, no
\* effect, and the size being decremented (the last element is dropped).
Erase(a, pos) ==
  IF pos <= Len(a)
    THEN {[list |-> [i \in 1..(Len(a) - 1) |-> IF i < pos THEN a[i] ELSE a[i + 1]],
           fault |-> "none"]}
    ELSE {[list |-> a, fault |-> "ub"], [list |-> a, fault |-> "none"]}
         \cup (IF Len(a) > 0
                 THEN {[list |-> SubSeq(a, 1, Len(a) - 1), fault |-> "none"]}
                 ELSE {})

\* RawContainer::detach: m_listeners.erase(std::remove_if(begin, end, listener)).
RawDetach(list, listener) ==
  LET r == RemoveIf(list, listener) IN Erase(r.a, r.result)

\* SmartContainer::detach: m_listeners.erase(std::remove_if(begin, end, lambda)).
SmartDetach(list, listener) ==
  LET r == RemoveIf(list, listener) IN Erase(r.a, r.result)

\* cond<Contains, T_Container>::detach.
condDetach(Contains, list, h) ==
  IF Contains
    THEN IF kind = "Raw" THEN RawDetach(list, h) ELSE SmartDetach(list, h)
    ELSE {[list |-> list, fault |-> "none"]}

\* Source::detach: the fold over the listener's Args pack; the set of
\* outcomes the undefined behaviour of the containers' detach allows.
RECURSIVE SourceDetach(_, _, _, _)
SourceDetach(Args, i, m, h) ==
  IF i > Len(Args) THEN {[m |-> m, fault |-> "none"]}
  ELSE LET c == Args[i]
           has == contains(c, T_Listeners)
       IN UNION {IF r.fault # "none" THEN {[m |-> m, fault |-> r.fault]}
                 ELSE SourceDetach(Args, i + 1,
                                   IF has THEN [m EXCEPT ![c] = r.list] ELSE m, h)
                 : r \in condDetach(has, IF has THEN m[c] ELSE <<>>, h)}

----------------------------------------------------------------------------
\* A RawContainer::notify that goes on to the remaining entries after a
\* callback threw and lets the exception out at the end.
RawNotify_continue(list, i, acc, thrower) ==
  IF \E j \in i..Len(list) : list[j] = thrower
    THEN {[delivered |-> acc \o SubSeq(list, i, Len(list)), raised |-> TRUE,
           fault |-> "none"]}
    ELSE {[delivered |-> acc \o SubSeq(list, i, Len(list)), raised |-> FALSE,
           fault |-> "none"]}

\* RawContainer::notify: for (auto& l : m_listeners) (l->*fn)(args...).
\* Calling through a pointer whose object is gone is undefined behaviour: the
\* call crashes, or goes through on the dead object.  A callback that throws
\* ends the loop and the exception leaves notify.
RECURSIVE RawNotify(_, _, _, _)
RawNotify(list, i, acc, thrower) ==
  IF i > Len(list) THEN {[delivered |-> acc, raised |-> FALSE, fault |-> "none"]}
  ELSE LET l == list[i] IN
    IF l \notin alive
      THEN {[delivered |-> acc, raised |-> FALSE, fault |-> "ub"]}
           \cup RawNotify(list, i + 1, Append(acc, l), thrower)
    ELSE IF l = thrower
      THEN {[delivered |-> Append(acc, l), raised |-> TRUE, fault |-> "none"]}
    ELSE RawNotify(list, i + 1, Append(acc, l), thrower)

\* SmartContainer::notify: for each weak_ptr, if (auto listener = lock())
\* (listener.get()->*fn)(args...).
RECURSIVE SmartNotify(_, _, _, _)
SmartNotify(list, i, acc, thrower) ==
  IF i > Len(list) THEN {[delivered |-> acc, raised |-> FALSE, fault |-> "none"]}
  ELSE LET listener == Lock(list[i]) IN
    IF listener = Null THEN SmartNotify(list, i + 1, acc, thrower)
    ELSE IF listener = thrower
      THEN {[delivered |-> Append(acc, listener), raised |-> TRUE, fault |-> "none"]}
    ELSE SmartNotify(list, i + 1, Append(acc, listener), thrower)

\* Source::notify: T_Container<T>::notify(fn, args...), T the capability the
\* member function belongs to.
SourceNotify(c, thrower) ==
  IF kind = "Raw" THEN RawNotify(m_listeners[c], 1, <<>>, thrower)
  ELSE SmartNotify(m_listeners[c], 1, <<>>, thrower)

----------------------------------------------------------------------------
NoOp == [name |-> "init", l |-> None, null |-> FALSE, c |-> None,
         thrower |-> None, raised |-> FALSE]

InitWith(kinds) ==
  /\ kind \in kinds
  /\ m_listeners = [c \in SourceCaps |-> <<>>]
  /\ alive = Listeners
  /\ fault = "none"
  /\ op = NoOp
  /\ pre = [c \in SourceCaps |-> <<>>]
  /\ delivered = <<>>
  /\ hist = <<>>
  /\ phase = 0
  /\ rt = [l |-> None, stage |-> 0]

Init == InitWith({"Raw", "Smart"})

\* source.attach(&l) / source.attach(shared_ptr to l), or the same call with
\* a null handle of l's static type.
AttachCall(l, null, max) ==
  /\ fault = "none"
  /\ \/ null
     \/ /\ l \in alive
        /\ Len(hist) < max
        /\ \A c \in Shared(l) : Len(m_listeners[c]) < max
  /\ LET r == SourceAttach(ListenerArgs(l), 1, m_listeners,
                           IF null THEN Null ELSE l)
     IN /\ m_listeners' = r.m
        /\ fault' = r.fault
  /\ rt' = IF ~null /\ \A c \in SourceCaps : Count(m_listeners[c], l) = 0
             THEN [l |-> l, stage |-> 1]
             ELSE [l |-> None, stage |-> 0]
  /\ pre' = m_listeners
  /\ op' = [NoOp EXCEPT !.name = "attach", !.l = l, !.null = null]
  /\ delivered' = <<>>
  /\ IF null THEN UNCHANGED <<hist, phase>>
     ELSE IF phase = 0 THEN hist' = Append(hist, l) /\ phase' = 0
     ELSE hist' = <<>> /\ phase' = 2
  /\ UNCHANGED <<kind, alive>>

\* source.detach(&l) / source.detach(shared_ptr to l), or the same call with a
\* null handle of l's static type.  A shared_ptr only ever refers to a live
\* object; a raw pointer may be compared after its object is gone.
DetachCall(l, null, keep) ==
  /\ fault = "none"
  /\ null \/ kind = "Raw" \/ l \in alive
  /\ \E r \in SourceDetach(ListenerArgs(l), 1, m_listeners,
                           IF null THEN Null ELSE l) :
        /\ m_listeners' = r.m
        /\ fault' = r.fault
  /\ pre' = m_listeners
  /\ op' = [NoOp EXCEPT !.name = "detach", !.l = l, !.null = null]
  /\ delivered' = <<>>
  /\ rt' = IF ~null /\ rt = [l |-> l, stage |-> 1]
             THEN [l |-> l, stage |-> 2]
             ELSE [l |-> None, stage |-> 0]
  /\ IF keep /\ phase < 2 THEN hist' = hist /\ phase' = 1
     ELSE hist' = <<>> /\ phase' = 2
  /\ UNCHANGED <<kind, alive>>

\* A notify that erases the entries it finds expired or dangling as it goes.
Notify_prune(c, thrower) ==
  /\ fault = "none"
  /\ thrower = None \/ (thrower \in alive /\ Count(m_listeners[c], thrower) > 0)
  /\ \E r \in SourceNotify(c, thrower) :
        /\ delivered' = r.delivered
        /\ fault' = r.fault
        /\ op' = [NoOp EXCEPT !.name = "notify", !.c = c, !.thrower = thrower,
                              !.raised = r.raised]
  /\ m_listeners' = [m_listeners EXCEPT
                       ![c] = SelectSeq(@, LAMBDA e : e \in alive)]
  /\ pre' = m_listeners
  /\ rt' = IF rt.stage = 2 THEN [rt EXCEPT !.stage = 3]
           ELSE [l |-> None, stage |-> 0]
  /\ UNCHANGED <<kind, alive, hist, phase>>

\* The concrete source calls notify(&C::fn, args...) for a capability c it
\* declares; thrower is the listener whose callback throws, if any.
Notify(c, thrower) ==
  /\ fault = "none"
  /\ thrower = None \/ (thrower \in alive /\ Count(m_listeners[c], thrower) > 0)
  /\ \E r \in SourceNotify(c, thrower) :
        /\ delivered' = r.delivered
        /\ fault' = r.fault
        /\ op' = [NoOp EXCEPT !.name = "notify", !.c = c, !.thrower = thrower,
                              !.raised = r.raised]
  /\ pre' = m_listeners
  /\ rt' = IF rt.stage = 2 THEN [rt EXCEPT !.stage = 3]
           ELSE [l |-> None, stage |-> 0]
  /\ UNCHANGED <<kind, m_listeners, alive, hist, phase>>

\* The application destroys a listener object (for a Smart source: the last
\* shared_ptr to it is reset).
Destroy(l) ==
  /\ fault = "none"
  /\ l \in alive
  /\ alive' = alive \ {l}
  /\ pre' = m_listeners
  /\ op' = [NoOp EXCEPT !.name = "destroy", !.l = l]
  /\ delivered' = <<>>
  /\ rt' = [l |-> None, stage |-> 0]
  /\ UNCHANGED <<kind, m_listeners, fault, hist, phase>>

Attach(l, null) == AttachCall(l, null, MaxLen)
Detach(l, null) == DetachCall(l, null, FALSE)

Next ==
  \/ \E l \in Population, null \in BOOLEAN : Attach(l, null)
  \/ \E l \in Population, null \in BOOLEAN : Detach(l, null)
  \/ \E c \in SourceCaps, t \in Population \cup {None} : Notify(c, t)
  \/ \E l \in Population : Destroy(l)

Spec == Init /\ [][Next]_vars

\* The attachment-order scenario: a Raw source, three listeners sharing
\* ListenerB, non-null handles, no object destroyed, no callback throwing.
InitOrder == InitWith({"Raw"})
OrderAttach(l) == AttachCall(l, FALSE, MaxOrderLen)
OrderDetach(l) == DetachCall(l, FALSE, TRUE)
OrderNotify(c) == Notify(c, None)

NextOrder ==
  \/ \E l \in OrderPopulation : OrderAttach(l)
  \/ \E l \in OrderPopulation : OrderDetach(l)
  \/ \E c \in SourceCaps : OrderNotify(c)

SpecOrder == InitOrder /\ [][NextOrder]_vars

----------------------------------------------------------------------------
\* The last call was a notify that ran while every attach call is on record
\* and no detach was made, no callback threw, and (Raw) no stored pointer
\* dangles.
C1_Case ==
  /\ op.name = "notify" /\ phase = 0 /\ ~op.raised
  /\ kind = "Raw" => \A i \in 1..Len(m_listeners[op.c]) : m_listeners[op.c][i] \in alive

\* C1: after attach calls only, a notify of capability c returns normally
\* having invoked each live listener L once per attach(L) call when c is
\* declared by both the Source and L, and having invoked every live stored
\* handle of c; a listener that does not declare c is never invoked.
C1_AttachNotifyDelivery ==
  C1_Case =>
    /\ fault = "none"
    /\ \A l \in alive :
         Count(delivered, l) = IF op.c \in Shared(l) THEN Count(hist, l) ELSE 0
    /\ \A l \in alive : Count(delivered, l) = Count(m_listeners[op.c], l)
    /\ \A l \in Listeners : op.c \notin Range(ListenerArgs(l)) => Count(delivered, l) = 0

\* lBC attached twice and lAB once, then ListenerC notified: lBC gets two calls,
\* lAB none.
C1_Witness ==
  /\ C1_Case /\ op.c = "ListenerC"
  /\ Count(hist, "lBC") = 2 /\ Count(hist, "lAB") = 1
  /\ delivered = <<"lBC", "lBC">>

----------------------------------------------------------------------------
\* C2: attach(L) on a source holding no entry of L, then detach(L), then a
\* notify: L is not invoked.
C2_RoundTrip == rt.stage = 3 => Count(delivered, rt.l) = 0

----------------------------------------------------------------------------
\* The last call was a notify on a Smart source.
C3_Case == kind = "Smart" /\ op.name = "notify"

\* C3: on a Smart source a notify never faults, never invokes a destroyed
\* listener (nor an empty handle), and, unless a callback throws, invokes
\* every live stored handle.
C3_ExpiredSkipped ==
  C3_Case =>
    /\ fault = "none"
    /\ \A i \in 1..Len(delivered) : delivered[i] \in alive
    /\ ~op.raised => \A l \in alive : Count(delivered, l) = Count(m_listeners[op.c], l)

\* lAB was attached and destroyed without detach, lBC is alive and attached:
\* the notify of ListenerB invokes lBC only.
C3_Witness ==
  /\ C3_Case /\ op.c = "ListenerB" /\ ~op.raised
  /\ "lAB" \notin alive /\ Count(m_listeners["ListenerB"], "lAB") > 0
  /\ "lBC" \in alive /\ delivered = <<"lBC">>

----------------------------------------------------------------------------
\* C4: after detach(L) has returned, no container of the Source holds an
\* entry of L.
C4_DetachRemovesAll ==
  (op.name = "detach" /\ ~op.null /\ fault = "none") =>
    \A c \in SourceCaps : Count(m_listeners[c], op.l) = 0

----------------------------------------------------------------------------
\* C5: a detach on a Smart source does not fault and leaves, in every
\* container it is forwarded to, no entry that resolves to the handle and no
\* entry whose object is gone.
C5_SmartDetachPrunes ==
  (kind = "Smart" /\ op.name = "detach") =>
    /\ fault = "none"
    /\ \A c \in Shared(op.l) : \A i \in 1..Len(m_listeners[c]) :
         /\ Lock(m_listeners[c][i]) # Null
         /\ op.null \/ Lock(m_listeners[c][i]) # op.l

----------------------------------------------------------------------------
\* C6: on a Raw source, detaching a handle that has no entry raises no fault
\* and leaves every vector as it was.
C6_DetachAbsentNoOp ==
  (kind = "Raw" /\ op.name = "detach"
     /\ (op.null \/ \A c \in SourceCaps : Count(pre[c], op.l) = 0)) =>
    fault = "none" /\ m_listeners = pre

----------------------------------------------------------------------------
\* C7 as stated: attach of a null handle always fails with the assertion and
\* stores nothing, whatever the listener type.
C7_NullAttachAsserts ==
  (op.name = "attach" /\ op.null) => fault = "assert" /\ m_listeners = pre

\* C7 as amended: attach of a null handle stores nothing; it fails with the
\* assertion exactly when the listener type shares a capability with the
\* Source, and is a silent no-op otherwise.
C7_NullAttachAssertsIffShared ==
  (op.name = "attach" /\ op.null) =>
    /\ m_listeners = pre
    /\ fault = IF Shared(op.l) # {} THEN "assert" ELSE "none"

\* A null Listener<ListenerB, ListenerC>* is attached to a source that already
\* holds entries: the assertion fails.
C7_Witness ==
  /\ op.name = "attach" /\ op.null /\ op.l = "lBC"
  /\ fault = "assert" /\ Len(pre["ListenerB"]) > 0

----------------------------------------------------------------------------
\* a was attached before b: every attach call of a precedes every one of b.
AttachedBefore(a, b) ==
  /\ Positions(hist, a) # {} /\ Positions(hist, b) # {}
  /\ \A i \in Positions(hist, a), j \in Positions(hist, b) : i < j

\* C8: in a notify made after attach calls followed by detach calls, a
\* listener attached before another one is invoked before it.
C8_NotifyInAttachOrder ==
  (op.name = "notify" /\ phase <= 1) =>
    \A a, b \in Listeners :
      AttachedBefore(a, b) =>
        \A i \in Positions(delivered, a), j \in Positions(delivered, b) : i < j

----------------------------------------------------------------------------
\* C9: attach of a non-null handle raises no fault, appends one entry to the
\* vector of each capability the Source and the listener share and leaves the
\* other vectors alone; with no shared capability attach and detach change
\* nothing and raise no fault.
C9_AttachFrame ==
  /\ (op.name = "attach" /\ ~op.null) =>
       /\ fault = "none"
       /\ \A c \in SourceCaps :
            m_listeners[c] = IF c \in Shared(op.l) THEN Append(pre[c], op.l) ELSE pre[c]
  /\ (op.name \in {"attach", "detach"} /\ Shared(op.l) = {}) =>
       fault = "none" /\ m_listeners = pre

\* lBC (two shared capabilities) is attached to a source already holding
\* entries: one entry more in each of the two vectors.
C9_Witness ==
  /\ op.name = "attach" /\ ~op.null /\ op.l = "lBC"
  /\ Len(pre["ListenerB"]) > 0
  /\ Len(m_listeners["ListenerB"]) = Len(pre["ListenerB"]) + 1
  /\ Len(m_listeners["ListenerC"]) = Len(pre["ListenerC"]) + 1

----------------------------------------------------------------------------
\* C10: while no detach was made, each shared container holds one entry per
\* attach call of a listener, and a notify invokes a live listener as many
\* times as it was attached.
C10_DuplicateAttach ==
  phase = 0 =>
    /\ \A l \in Listeners : \A c \in Shared(l) : Count(m_listeners[c], l) = Count(hist, l)
    /\ (C1_Case /\ fault = "none") =>
         \A l \in alive : op.c \in Shared(l) => Count(delivered, l) = Count(hist, l)

\* A Smart source, lBC attached three times, ListenerB notified: three calls.
C10_Witness ==
  /\ kind = "Smart" /\ C1_Case /\ op.c = "ListenerB"
  /\ hist = <<"lBC", "lBC", "lBC">>
  /\ delivered = <<"lBC", "lBC", "lBC">>

----------------------------------------------------------------------------
\* The last call was a detach, on a Raw source, of a non-null handle that had
\* an entry in the vector of capability c, and it returned.
RawDetachOf(c) ==
  /\ kind = "Raw" /\ op.name = "detach" /\ ~op.null /\ fault = "none"
  /\ c \in Shared(op.l) /\ Count(pre[c], op.l) >= 1

----------------------------------------------------------------------------
\* The last call was a notify in which a callback threw.
C12_Case == op.name = "notify" /\ op.raised

\* The entries of s a notify calls: all of them (Raw), the live ones (Smart).
Called(s) ==
  LET IsLive(e) == e \in alive
  IN IF kind = "Raw" THEN s ELSE SelectSeq(s, IsLive)

\* C12: when the callback of a stored entry throws, the calls made are those
\* of the entries up to and including the first entry of the throwing
\* listener, none after it; the exception leaves notify (it is never
\* swallowed) and every vector is as it was.
C12_FailFast ==
  /\ C12_Case =>
       LET list == m_listeners[op.c]
           at == Positions(list, op.thrower)
       IN /\ fault = "none" /\ m_listeners = pre
          /\ at # {}
          /\ \E i \in at :
               /\ \A j \in at : i <= j
               /\ delivered = Called(SubSeq(list, 1, i))
  /\ (op.name = "notify" /\ op.thrower # None /\ fault = "none") => op.raised

\* Raw source, three entries, the callback of the second one throws: two
\* calls are made, the third entry is not called.
C12_Witness ==
  /\ C12_Case /\ kind = "Raw" /\ op.thrower = "lBC"
  /\ m_listeners[op.c] = <<"lAB", "lBC", "lAB">>
  /\ delivered = <<"lAB", "lBC">>

----------------------------------------------------------------------------
\* s is an initial part of t.
IsPrefix(s, t) == Len(s) <= Len(t) /\ SubSeq(t, 1, Len(s)) = s

\* C13: a notify leaves every vector exactly as it was, expired entries
\* included; entries only ever leave a vector in a detach (any other call
\* keeps the old vector as an initial part of the new one).
C13_NotifyReadOnly ==
  /\ op.name = "notify" => m_listeners = pre
  /\ op.name # "detach" => \A c \in SourceCaps : IsPrefix(pre[c], m_listeners[c])

\* Smart source: lAB was destroyed while attached, lBC is alive; after the
\* notify the expired entry of lAB is still in the vector.
C13_Witness ==
  /\ kind = "Smart" /\ op.name = "notify" /\ op.c = "ListenerB"
  /\ "lAB" \notin alive
  /\ m_listeners["ListenerB"] = <<"lAB", "lBC">>
  /\ delivered = <<"lBC">>

----------------------------------------------------------------------------
\* C14: the Source has one vector per capability of its T_Listeners pack and
\* no other, and every entry of the vector of capability c that refers to an
\* object (an empty weak handle refers to none) refers to a listener whose
\* Args pack contains c.
C14_ContainerTyping ==
  /\ DOMAIN m_listeners = SourceCaps
  /\ Cardinality(SourceCaps) = Len(T_Listeners)
  /\ \A c \in DOMAIN m_listeners : \A i \in 1..Len(m_listeners[c]) :
       LET e == m_listeners[c][i]
       IN e # EmptyWeak => e \in Listeners /\ contains(c, ListenerArgs(e))

\* lAB (ListenerA, ListenerB) and lBC (ListenerB, ListenerC) are both stored:
\* the vector of ListenerB holds both, that of ListenerC holds lBC only.
C14_Witness ==
  /\ Count(m_listeners["ListenerB"], "lAB") > 0
  /\ Count(m_listeners["ListenerB"], "lBC") > 0
  /\ Count(m_listeners["ListenerC"], "lBC") > 0
  /\ Count(m_listeners["ListenerC"], "lAB") = 0
  /\ op.name = "attach" /\ op.l = "lAB" /\ ~op.null

----------------------------------------------------------------------------
\* The entries of s that belong to live listeners other than h, in order.
OthersOf(s, h) ==
  LET IsOther(e) == e \in alive /\ e # h
  IN SelectSeq(s, IsOther)

\* C15: a detach that returns, of a non-null handle that had an entry in a
\* vector, leaves the entries of every other live listener in that vector as
\* they were, in number and in order.
C15_DetachFrame ==
  (op.name = "detach" /\ ~op.null /\ fault = "none") =>
    \A c \in Shared(op.l) :
      Count(pre[c], op.l) >= 1 =>
        OthersOf(m_listeners[c], op.l) = OthersOf(pre[c], op.l)
====
